---- MODULE Spec2Model ----
(***************************************************************************)
(* Model of the Agoric iframe sandbox (src/src/index.js): the postMessage  *)
(* router, the wallet session, the chain storage watcher and the offer     *)
(* orchestrator.  Every handler is an async function; one action of the    *)
(* model runs a handler from one suspension point (a pending external      *)
(* promise or timer) to the next, which is the unit the JavaScript event    *)
(* loop runs without interleaving.                                          *)
(***************************************************************************)
EXTENDS Integers, Sequences, FiniteSets, TLC

VARIABLES state, subs, keplr, initPc, readyCount, h, replies

vars == <<state, subs, keplr, initPc, readyCount, h, replies>>

(***************************************************************************)
(* JavaScript values.  A string-valued slot holds a string, or one of the   *)
(* two sentinels below; an object-valued slot holds a record with a field k *)
(* naming its shape.                                                        *)
(***************************************************************************)
UndefStr == "<undefined>"
NullStr == "<null>"
Null == [k |-> "null"]
Undef == [k |-> "undefined"]

\* JavaScript truthiness of a string-valued slot.
Truthy(s) == s \notin {UndefStr, NullStr, ""}

\* a || b on string-valued slots.
OrElse(a, b) == IF Truthy(a) THEN a ELSE b

\* new Error(message): an undefined message becomes the empty string.
NewError(m) ==
  [k |-> "Error", code |-> UndefStr, hasMessage |-> TRUE,
   message |-> IF m = UndefStr THEN "" ELSE m, text |-> "{}"]

\* An object literal { code, message }: the key message is present even when
\* its value is undefined, and JSON.stringify (text) leaves it out then.
CodeError(c, m) ==
  [k |-> "object", code |-> c, hasMessage |-> TRUE, message |-> m,
   text |-> IF m = UndefStr THEN "{code:" \o c \o "}"
            ELSE "{code:" \o c \o ",message:" \o m \o "}"]

\* A thrown string.
StringFailure(s) ==
  [k |-> "string", code |-> UndefStr, hasMessage |-> FALSE, message |-> UndefStr, text |-> s]

\* A thrown plain object without a message key; text is its JSON rendering.
ObjectFailure(json) ==
  [k |-> "object", code |-> UndefStr, hasMessage |-> FALSE, message |-> UndefStr, text |-> json]

\* The failures the external collaborators (wallet extension, SDK calls,
\* offer status updates) reject with.
ExternalFailures ==
  {NewError("Request rejected"), StringFailure("rejected"), ObjectFailure("{}")}

\* The TypeError of destructuring the parameter of a handler called with
\* undefined or null.
DestructureError == NewError("Cannot destructure property of undefined or null")

\* The TypeError of reading a property of null.
NullReadError == NewError("Cannot read properties of null (reading 'offerToUsedInvitation')")

\* getErrorMessage: the message of an Error or of an object with a message
\* key, a string itself, else the JSON rendering, with "{}" and "null"
\* replaced by String(error).
getErrorMessage(error) ==
  IF error.k = "Error" THEN error.message
  ELSE IF error.k = "object" /\ error.hasMessage THEN error.message
  ELSE IF error.k = "string" THEN error.text
  ELSE IF error.text \in {"{}", "null"} THEN "[object Object]"
  ELSE error.text

(***************************************************************************)
(* Network Profile Registry                                                 *)
(***************************************************************************)
networkConfigs ==
  [mainnet |-> [CHAIN_ID |-> "agoric-3"],
   devnet |-> [CHAIN_ID |-> "agoricdev-25"],
   emerynet |-> [CHAIN_ID |-> "agoric-emerynet-9"],
   local |-> [CHAIN_ID |-> "agoriclocal"]]

\* The properties networkConfigs inherits from Object.prototype: a lookup by
\* one of these names finds a member of the prototype, which is truthy and
\* has no CHAIN_ID.
ObjectPrototypeKeys ==
  {"constructor", "toString", "valueOf", "hasOwnProperty", "isPrototypeOf", "__proto__"}

\* networkConfigs[name]: an own property, an inherited one, or undefined.
Lookup(name) ==
  IF name \in DOMAIN networkConfigs THEN networkConfigs[name]
  ELSE IF name \in ObjectPrototypeKeys THEN [CHAIN_ID |-> UndefStr]
  ELSE Undef

getConfig(network) ==
  LET normalizedNetwork == OrElse(network, "devnet")
  IN IF Lookup(normalizedNetwork) # Undef
     THEN Lookup(normalizedNetwork)
     ELSE networkConfigs.devnet

(***************************************************************************)
(* Session State and the values it holds                                    *)
(***************************************************************************)
\* const state = { ... } as the module is loaded.
InitialState ==
  [network |-> NullStr, watcher |-> Null, wallet |-> Null,
   currentWalletRecord |-> Null, brands |-> Null, contractInstance |-> Null,
   accountInvitation |-> Null, hasAccount |-> FALSE, isInitialized |-> FALSE]

\* The handle makeAgoricChainStorageWatcher returns for a network's profile.
Watcher(network) == [k |-> "watcher", network |-> network]

\* The connection makeAgoricWalletConnection resolves with.
Wallet(address) == [k |-> "wallet", address |-> address]

KeplrAddress == "agoric1user"

\* A subscription registered with watchLatest on a watcher: the path watched.
Sub(watcher, path) == [watcher |-> watcher, path |-> path]

\* Strings of the wallet record's offer ids are sequences of characters, and
\* localeCompare orders them character by character.
Chars == <<"0", "1", "2", "3", "4", "5", "6", "7", "8", "9", "a", "b", "c">>

CodeOf(c) == CHOOSE i \in 1..Len(Chars) : Chars[i] = c

RECURSIVE localeCompare(_, _)
localeCompare(a, b) ==
  IF a = <<>> /\ b = <<>> THEN 0
  ELSE IF a = <<>> THEN -1
  ELSE IF b = <<>> THEN 1
  ELSE IF CodeOf(Head(a)) < CodeOf(Head(b)) THEN -1
  ELSE IF CodeOf(Head(a)) > CodeOf(Head(b)) THEN 1
  ELSE localeCompare(Tail(a), Tail(b))

AccountDescription == "qstnAccountKitInvitation"

\* One [id, usedInvitation] entry of offerToUsedInvitation; description is
\* value[0].description, or UndefStr when value is not a non-empty array.
Entry(id, description) == [id |-> id, description |-> description]

WalletRecord(entries) == [k |-> "record", offerToUsedInvitation |-> entries]

\* The wallet records the chain publishes for the connected address.
WalletRecords ==
  {WalletRecord(<<Entry(<<"c">>, "otherInvitation")>>),
   WalletRecord(<<Entry(<<"9">>, AccountDescription), Entry(<<"1", "0">>, AccountDescription),
                  Entry(<<"c">>, "otherInvitation")>>)}

\* Object.fromEntries(brands): the keys of the brand registry, in order.
Brands(keys) == [k |-> "brands", keys |-> keys]

BrandRegistries == {Brands(<<"IST">>), Brands(<<"BLD", "IST">>)}

ContractInstance == [k |-> "instance", name |-> "QstnContract"]

(***************************************************************************)
(* Results of running a piece of a handler: the world it leaves (Session    *)
(* State and the registered subscriptions), the handler's locals, and how   *)
(* it ended: suspended at an await, returned a value, or threw.             *)
(***************************************************************************)
World(s, ss) == [state |-> s, subs |-> ss]

Suspend(w, l, pc) == [w |-> w, l |-> [l EXCEPT !.pc = pc], tag |-> "suspend", val |-> Null]

Return(w, l, val) == [w |-> w, l |-> l, tag |-> "return", val |-> val]

Throw(w, l, error) == [w |-> w, l |-> l, tag |-> "throw", val |-> error]

(***************************************************************************)
(* Chain State Watcher Adapter                                              *)
(***************************************************************************)
\* setupWatcher: makeAgoricChainStorageWatcher may throw (watcherOk = FALSE),
\* before anything is stored; else the handle and the network are stored and
\* the instance and brand subscriptions are registered.
setupWatcher(w, l, network, watcherOk) ==
  LET targetNetwork == OrElse(network, "devnet")
      watcher == Watcher(targetNetwork)
  IN IF ~watcherOk
     THEN Throw(w, l, NewError("watcher setup failed"))
     ELSE Return(World([w.state EXCEPT !.watcher = watcher, !.network = targetNetwork],
                       w.subs \cup {Sub(watcher, "instance"), Sub(watcher, "brand")}),
                 l, watcher)

\* A variant of watchWallet that asks for a watcher only.
watchWalletWithoutWallet(w) ==
  IF w.state.watcher = Null
  THEN w
  ELSE World(w.state, w.subs \cup {Sub(w.state.watcher, "wallet")})

\* watchWallet: registers the wallet-record subscription when both a watcher
\* and a wallet exist, and is a no-op otherwise.
watchWallet(w) ==
  IF w.state.watcher = Null \/ w.state.wallet = Null
  THEN w
  ELSE World(w.state, w.subs \cup {Sub(w.state.watcher, "wallet")})

(***************************************************************************)
(* Account Invitation Resolver                                              *)
(***************************************************************************)
\* filter(...): the entries whose description is the account kit's.
MatchingEntries(entries) ==
  SelectSeq(entries, LAMBDA inv : inv.description = AccountDescription)

\* A variant of the selection that sorts ascending.
RECURSIVE FirstAscending(_, _)
FirstAscending(entries, best) ==
  IF entries = <<>> THEN best
  ELSE IF localeCompare(Head(entries).id, best.id) < 0
       THEN FirstAscending(Tail(entries), Head(entries))
       ELSE FirstAscending(Tail(entries), best)

\* sort((a, b) => b[0].localeCompare(a[0])).at(0): the first entry that no
\* other entry precedes in descending id order.
RECURSIVE FirstDescending(_, _)
FirstDescending(entries, best) ==
  IF entries = <<>> THEN best
  ELSE IF localeCompare(Head(entries).id, best.id) > 0
       THEN FirstDescending(Tail(entries), Head(entries))
       ELSE FirstDescending(Tail(entries), best)

Invitation(entry) == [k |-> "invitation", id |-> entry.id]

\* getAccountInvitation: with no wallet record it calls watchWallet and then
\* reads a property of null, which throws; else it returns the selected
\* invitation or null.
getAccountInvitation(w, l) ==
  IF w.state.currentWalletRecord = Null
  THEN Throw(watchWallet(w), l, NullReadError)
  ELSE LET matching == MatchingEntries(w.state.currentWalletRecord.offerToUsedInvitation)
       IN IF matching = <<>>
          THEN Return(w, l, Null)
          ELSE Return(w, l, Invitation(FirstDescending(Tail(matching), Head(matching))))

(***************************************************************************)
(* Requests and the locals of their handlers                                *)
(***************************************************************************)
ReqIds == {"r1", "r2"}

Operations == {"CONNECT_WALLET", "SIGN_DATA", "FUND_SURVEY", "CLAIM_REWARDS", "GET_STATUS"}

ReservedTags == {"AGORIC_RESPONSE", "AGORIC_READY"}

\* The message types the parent sends: the five operations, the two reserved
\* tags and a type the router does not know.
MessageTypes == Operations \cup ReservedTags \cup {"PING"}

\* event.data.data: a payload object, or absent, or null.
PayloadKinds == {"object", "undefined", "null"}

\* data.network of a CONNECT_WALLET payload.
PayloadNetworks == {UndefStr, "devnet", "mainnet"}

\* data.denom of a FUND_SURVEY or CLAIM_REWARDS payload, as characters.
PayloadDenoms == {<<"U", "b", "l", "d">>}

\* The locals of one invocation of the message listener and of the functions
\* it calls: the destructured request, the position (pc), the constants and
\* lets of connectWallet, signData and makeOffer, and the listener's result
\* and caught error.  overlapped records that another request was in flight
\* while this one was.
InitLocal ==
  [pc |-> "idle", id |-> NullStr, type |-> NullStr, data |-> "undefined",
   network |-> UndefStr, denom |-> <<>>,
   targetNetwork |-> UndefStr, wallet |-> Null,
   signer |-> UndefStr, chainId |-> UndefStr,
   accountWasCreated |-> FALSE, invitationSpec |-> Null, offerArgs |-> Null,
   submitted |-> FALSE, seatedData |-> Null, settled |-> "none", callbacks |-> <<>>,
   updates |-> 0,
   outcome |-> "none", result |-> Undef, error |-> Undef, overlapped |-> FALSE]

\* What the environment feeds a resumed handler: whether the awaited external
\* call resolved, the failure it rejected with, whether creating a watcher
\* worked, whether wallet.makeOffer threw, and what the REST lookup found.
Input(ok, fail, watcherOk, submitOk, fetched) ==
  [ok |-> ok, fail |-> fail, watcherOk |-> watcherOk, submitOk |-> submitOk,
   fetched |-> fetched]

NoInput == Input(TRUE, NewError(""), TRUE, TRUE, Null)

(***************************************************************************)
(* Wallet Session: connectWallet                                            *)
(***************************************************************************)
\* The catch block of connectWallet: the error is normalized to one of two
\* codes.
connectWalletCatch(w, l, error) ==
  IF error.message = "KEPLR_NOT_INSTALLED"
  THEN Throw(w, l, CodeError("KEPLR_NOT_INSTALLED", "Keplr wallet extension not found"))
  ELSE Throw(w, l, CodeError("CONNECTION_FAILED", error.message))

\* if (!window.keplr) throw ...; else suggestChain is awaited.
connectWalletCheckKeplr(w, l) ==
  IF ~keplr
  THEN connectWalletCatch(w, l, NewError("KEPLR_NOT_INSTALLED"))
  ELSE Suspend(w, l, "cw_suggestChain")

\* connectWallet from its entry to its first await.
connectWalletEntry(w, l, network, inp) ==
  LET targetNetwork == OrElse(network, "devnet")
      l1 == [l EXCEPT !.targetNetwork = targetNetwork]
  IN IF w.state.watcher = Null \/ targetNetwork # w.state.network
     THEN LET r == setupWatcher(w, l1, targetNetwork, inp.watcherOk)
          IN IF r.tag = "throw"
             THEN connectWalletCatch(r.w, r.l, r.val)
             ELSE Suspend(r.w, r.l, "cw_settleWatcher")
     ELSE connectWalletCheckKeplr(w, l1)

\* A variant of the end of connectWallet that clears the cache when the
\* resolver finds nothing.
connectWalletFinishClearsCache(w, l) ==
  LET r == getAccountInvitation(w, l)
  IN IF r.tag = "throw"
     THEN connectWalletCatch(r.w, r.l, r.val)
     ELSE Return(World([r.w.state EXCEPT !.accountInvitation = r.val,
                                         !.hasAccount = (r.val # Null)], r.w.subs),
                 r.l, [k |-> "connected", address |-> l.wallet.address])

\* The end of connectWallet, after the second settle delay: the resolver's
\* result is cached when there is one.
connectWalletFinish(w, l) ==
  LET r == getAccountInvitation(w, l)
  IN IF r.tag = "throw"
     THEN connectWalletCatch(r.w, r.l, r.val)
     ELSE IF r.val # Null
     THEN Return(World([r.w.state EXCEPT !.accountInvitation = r.val, !.hasAccount = TRUE],
                       r.w.subs),
                 r.l, [k |-> "connected", address |-> l.wallet.address])
     ELSE Return(r.w, r.l, [k |-> "connected", address |-> l.wallet.address])

\* connectWallet resumed at the await it is suspended at.
connectWalletResume(w, l, inp) ==
  CASE l.pc = "cw_settleWatcher" -> connectWalletCheckKeplr(w, l)
    [] l.pc = "cw_suggestChain" ->
         IF inp.ok THEN Suspend(w, l, "cw_walletConnection")
         ELSE connectWalletCatch(w, l, inp.fail)
    [] l.pc = "cw_walletConnection" ->
         IF inp.ok
         THEN LET wallet == Wallet(KeplrAddress)
                  w1 == World([w.state EXCEPT !.wallet = wallet], w.subs)
              IN Suspend(watchWallet(w1), [l EXCEPT !.wallet = wallet], "cw_settleWallet")
         ELSE connectWalletCatch(w, l, inp.fail)
    [] l.pc = "cw_settleWallet" -> connectWalletFinish(w, l)

ConnectPcs == {"cw_settleWatcher", "cw_suggestChain", "cw_walletConnection", "cw_settleWallet"}

(***************************************************************************)
(* Wallet Session: signData                                                 *)
(***************************************************************************)
\* A variant of the catch block of signData that reports a missing wallet
\* under the code WALLET_NOT_CONNECTED.
signDataCatchWalletCode(w, l, error) ==
  Throw(w, l, CodeError(IF w.state.wallet = Null THEN "WALLET_NOT_CONNECTED"
                        ELSE "SIGNING_FAILED", error.message))

\* The catch block of signData.
signDataCatch(w, l, error) == Throw(w, l, CodeError("SIGNING_FAILED", error.message))

\* makeADR036AminoDoc and the call of keplr.signAmino, which is awaited.
signDataSign(w, l) ==
  Suspend(w, [l EXCEPT !.signer = w.state.wallet.address,
                       !.chainId = getConfig(w.state.network).CHAIN_ID], "sd_signAmino")

\* After the implicit connectWallet of signData.
signDataAfterConnect(r) ==
  CASE r.tag = "suspend" -> r
    [] r.tag = "throw" -> signDataCatch(r.w, r.l, r.val)
    [] r.tag = "return" -> signDataSign(r.w, r.l)

\* signData({ data }): destructuring an absent payload throws outside the try
\* block.
signData(w, l, inp) ==
  CASE l.pc = "start" ->
         IF l.data # "object" THEN Throw(w, l, DestructureError)
         ELSE IF ~keplr THEN signDataCatch(w, l, NewError("Keplr wallet not found"))
         ELSE IF w.state.wallet = Null
         THEN signDataAfterConnect(connectWalletEntry(w, l, w.state.network, inp))
         ELSE signDataSign(w, l)
    [] l.pc \in ConnectPcs -> signDataAfterConnect(connectWalletResume(w, l, inp))
    [] l.pc = "sd_signAmino" ->
         IF inp.ok
         THEN Return(w, l, [k |-> "signed", signedData |-> <<l.signer, l.chainId>>,
                            signature |-> "signature"])
         ELSE signDataCatch(w, l, inp.fail)

(***************************************************************************)
(* Offer Orchestrator: makeOffer                                            *)
(***************************************************************************)
\* String.prototype.toUpperCase, character by character.
UpperChar(c) ==
  CASE c = "u" -> "U" [] c = "b" -> "B" [] c = "l" -> "L" [] c = "d" -> "D"
    [] c = "i" -> "I" [] c = "s" -> "S" [] c = "t" -> "T"
    [] OTHER -> c

RECURSIVE toUpperCase(_)
toUpperCase(chars) ==
  IF chars = <<>> THEN "" ELSE UpperChar(Head(chars)) \o toUpperCase(Tail(chars))

\* Array.prototype.join(", ").
RECURSIVE join(_)
join(keys) ==
  IF keys = <<>> THEN ""
  ELSE IF Len(keys) = 1 THEN Head(keys)
  ELSE Head(keys) \o ", " \o join(Tail(keys))

\* A variant of brandKey that compares the denom as it was given.
brandKeyCaseSensitive(denom) ==
  IF denom = <<"u", "b", "l", "d">> THEN "BLD" ELSE toUpperCase(denom)

\* const brandKey = denom.toUpperCase() === "UBLD" ? "BLD" : denom.toUpperCase()
brandKey(denom) == IF toUpperCase(denom) = "UBLD" THEN "BLD" ELSE toUpperCase(denom)

\* The payload of an offer status update, or of the REST lookup: the
\* transaction hash (txn.transactionHash, UndefStr without txn) and offerId.
Data(txn, offerId) == [k |-> "data", txn |-> txn, offerId |-> offerId]

\* The payloads of seated updates (without and with txn) and of accepted
\* updates (none, without txn, with txn).
SeatedDatas == {Data(UndefStr, "offer-1"), Data("tx-seated", "offer-1")}

AcceptedDatas == {Undef, Data(UndefStr, "offer-2"), Data("tx-accepted", "offer-2")}

\* What getLastTransaction builds from the first tx_responses entry.
ApiData == Data("tx-api", "Date.now()")

\* The status updates the wallet delivers to the callback of an offer.
Update(status, data) == [status |-> status, data |-> data]

OfferUpdates ==
  {Update("error", f) : f \in ExternalFailures}
  \cup {Update("seated", d) : d \in SeatedDatas}
  \cup {Update("accepted", d) : d \in AcceptedDatas}
  \cup {Update("refunded", d) : d \in {Undef, Data("tx-refunded", "offer-3")}}
  \cup {Update("pending", Undef)}

\* How many status updates the wallet delivers to one offer.
MaxUpdates == 2

\* JavaScript truthiness of an object-valued slot.
TruthyObject(v) == v \notin {Null, Undef}

\* A variant of the continuing invitation spec that leaves the messages out.
ContinueSpecWithoutMessages(previousOffer) ==
  [source |-> "continuing", previousOffer |-> previousOffer,
   invitationMakerName |-> "makeTransactionInvitation",
   invitationArgs |-> <<"sendTransactions", <<>>>>]

\* The invitation spec of the Continue route.
ContinueSpec(previousOffer) ==
  [source |-> "continuing", previousOffer |-> previousOffer,
   invitationMakerName |-> "makeTransactionInvitation",
   invitationArgs |-> <<"sendTransactions", <<"messages">>>>]

\* The invitation spec of the Create route.
CreateSpec(instance) ==
  [source |-> "contract", instance |-> instance,
   publicInvitationMaker |-> "createQstnAccountKit"]

\* A variant of makeOffer that checks the brand registry before the contract
\* instance.
makeOfferEntryBrandsFirst(w, l, inp) ==
  IF w.state.wallet = Null
  THEN Throw(w, l, NewError("Wallet not connected. Call connectWallet() first."))
  ELSE IF w.state.brands = Null
  THEN Throw(w, l, NewError("Brands not loaded. Wait for chain storage to sync."))
  ELSE IF ~TruthyObject(w.state.contractInstance)
  THEN Throw(w, l, NewError("Contract not found. Ensure contract instance or installation are loaded."))
  ELSE IF \A n \in 1..Len(w.state.brands.keys) : w.state.brands.keys[n] # brandKey(l.denom)
  THEN Throw(w, l, NewError("Brand not found for " \o brandKey(l.denom)
                            \o ". Available brands: " \o join(w.state.brands.keys)))
  ELSE LET r == getAccountInvitation(w, l)
       IN IF r.tag = "throw" THEN r
          ELSE LET l1 == IF r.val # Null
                         THEN [r.l EXCEPT !.invitationSpec = ContinueSpec(r.val.id),
                                          !.offerArgs = [k |-> "none"],
                                          !.accountWasCreated = FALSE]
                         ELSE [r.l EXCEPT !.invitationSpec = CreateSpec(r.w.state.contractInstance),
                                          !.offerArgs = [k |-> "messages"],
                                          !.accountWasCreated = TRUE]
               IN IF ~inp.submitOk
                  THEN Throw(r.w, [l1 EXCEPT !.settled = "rejected"], inp.fail)
                  ELSE Suspend(r.w, [l1 EXCEPT !.settled = "pending", !.submitted = TRUE],
                               "mo_offer")

\* makeOffer from its entry to the await of the promise it returns: the
\* state validation, the brand lookup, the account routing and the call of
\* wallet.makeOffer, which may throw (submitOk = FALSE).
makeOfferEntry(w, l, inp) ==
  IF w.state.wallet = Null
  THEN Throw(w, l, NewError("Wallet not connected. Call connectWallet() first."))
  ELSE IF ~TruthyObject(w.state.contractInstance)
  THEN Throw(w, l, NewError("Contract not found. Ensure contract instance or installation are loaded."))
  ELSE IF w.state.brands = Null
  THEN Throw(w, l, NewError("Brands not loaded. Wait for chain storage to sync."))
  ELSE IF \A n \in 1..Len(w.state.brands.keys) : w.state.brands.keys[n] # brandKey(l.denom)
  THEN Throw(w, l, NewError("Brand not found for " \o brandKey(l.denom)
                            \o ". Available brands: " \o join(w.state.brands.keys)))
  ELSE LET r == getAccountInvitation(w, l)
       IN IF r.tag = "throw" THEN r
          ELSE LET l1 == IF r.val # Null
                         THEN [r.l EXCEPT !.invitationSpec = ContinueSpec(r.val.id),
                                          !.offerArgs = [k |-> "none"],
                                          !.accountWasCreated = FALSE]
                         ELSE [r.l EXCEPT !.invitationSpec = CreateSpec(r.w.state.contractInstance),
                                          !.offerArgs = [k |-> "messages"],
                                          !.accountWasCreated = TRUE]
               IN IF ~inp.submitOk
                  THEN Throw(r.w, [l1 EXCEPT !.settled = "rejected"], inp.fail)
                  ELSE Suspend(r.w, [l1 EXCEPT !.settled = "pending", !.submitted = TRUE],
                               "mo_offer")

\* getLastTransaction up to its await of fetch: no request is made without
\* a wallet or a network.
getLastTransactionFetches(w) == w.state.wallet # Null /\ Truthy(w.state.network)

\* The value resolve() is called with.
Accepted(finalData) == [k |-> "offerResult", status |-> "accepted", data |-> finalData]

\* The end of the accepted branch of the status callback: the choice of
\* finalData; cb is the callback invocation, with its update's data.
acceptedData(w, l, cb) ==
  LET finalData == IF TruthyObject(l.seatedData) THEN l.seatedData ELSE cb.data
  IN IF ~TruthyObject(finalData) \/ finalData.txn = UndefStr
     THEN IF getLastTransactionFetches(w)
          THEN [w |-> w, l |-> l, tag |-> "fetch", val |-> finalData]
          ELSE [w |-> w, l |-> l, tag |-> "resolve", val |-> Accepted(finalData)]
     ELSE [w |-> w, l |-> l, tag |-> "resolve", val |-> Accepted(finalData)]

\* After the settle delay of an accepted Create-route offer: the invitation
\* is resolved again and cached when found.
acceptedAccountCreated(w, l, cb) ==
  LET r == getAccountInvitation(w, l)
  IN IF r.tag = "throw"
     THEN [w |-> r.w, l |-> r.l, tag |-> "callbackThrew", val |-> r.val]
     ELSE IF r.val # Null
     THEN acceptedData(World([r.w.state EXCEPT !.accountInvitation = r.val,
                                               !.hasAccount = TRUE], r.w.subs), r.l, cb)
     ELSE acceptedData(r.w, r.l, cb)

\* A variant of the status callback whose refunded case resolves with the
\* remembered seated payload when there is one.
statusCallbackRefundKeepsSeated(w, l, update) ==
  CASE update.status = "error" ->
         [w |-> w, l |-> l, tag |-> "reject", val |-> NewError(getErrorMessage(update.data))]
    [] update.status = "seated" ->
         [w |-> w, l |-> [l EXCEPT !.seatedData = update.data], tag |-> "nothing", val |-> Null]
    [] update.status = "accepted" ->
         IF l.accountWasCreated
         THEN [w |-> w, l |-> l, tag |-> "settle", val |-> Null]
         ELSE acceptedData(w, l, [pc |-> "cb_start", data |-> update.data])
    [] update.status = "refunded" ->
         IF TruthyObject(l.seatedData)
         THEN [w |-> w, l |-> l, tag |-> "resolve", val |-> Accepted(l.seatedData)]
         ELSE [w |-> w, l |-> l, tag |-> "reject",
               val |-> NewError("Offer was refunded (wants not satisfied)")]
    [] OTHER -> [w |-> w, l |-> l, tag |-> "nothing", val |-> Null]

\* A variant of the status callback that takes a seated offer for done.
statusCallbackResolvesSeated(w, l, update) ==
  CASE update.status = "error" ->
         [w |-> w, l |-> l, tag |-> "reject", val |-> NewError(getErrorMessage(update.data))]
    [] update.status = "seated" ->
         [w |-> w, l |-> [l EXCEPT !.seatedData = update.data], tag |-> "resolve",
          val |-> Accepted(update.data)]
    [] update.status = "accepted" ->
         IF l.accountWasCreated
         THEN [w |-> w, l |-> l, tag |-> "settle", val |-> Null]
         ELSE acceptedData(w, l, [pc |-> "cb_start", data |-> update.data])
    [] update.status = "refunded" ->
         [w |-> w, l |-> l, tag |-> "reject",
          val |-> NewError("Offer was refunded (wants not satisfied)")]
    [] OTHER -> [w |-> w, l |-> l, tag |-> "nothing", val |-> Null]

\* One invocation of the status callback, from its call to its first await
\* or its end.  The result's tag says what it did to the promise (resolve,
\* reject, nothing) or where it is suspended (settle, fetch).
statusCallback(w, l, update) ==
  CASE update.status = "error" ->
         [w |-> w, l |-> l, tag |-> "reject", val |-> NewError(getErrorMessage(update.data))]
    [] update.status = "seated" ->
         [w |-> w, l |-> [l EXCEPT !.seatedData = update.data], tag |-> "nothing", val |-> Null]
    [] update.status = "accepted" ->
         IF l.accountWasCreated
         THEN [w |-> w, l |-> l, tag |-> "settle", val |-> Null]
         ELSE acceptedData(w, l, [pc |-> "cb_start", data |-> update.data])
    [] update.status = "refunded" ->
         [w |-> w, l |-> l, tag |-> "reject",
          val |-> NewError("Offer was refunded (wants not satisfied)")]
    [] OTHER -> [w |-> w, l |-> l, tag |-> "nothing", val |-> Null]

\* A variant of the resumed callback that rejects when the REST lookup found
\* nothing.
statusCallbackResumeEscalates(w, l, cb, fetched) ==
  CASE cb.pc = "cb_settle" -> acceptedAccountCreated(w, l, cb)
    [] cb.pc = "cb_fetch" ->
         IF fetched # Null
         THEN [w |-> w, l |-> l, tag |-> "resolve", val |-> Accepted(fetched)]
         ELSE [w |-> w, l |-> l, tag |-> "reject",
               val |-> NewError("Could not fetch transaction data from API")]

\* A suspended accepted callback resumed: after the settle delay (cb.data is
\* the update's data), or with the outcome of the REST lookup (cb.data is
\* finalData, and fetched is Null when the lookup found nothing).
statusCallbackResume(w, l, cb, fetched) ==
  CASE cb.pc = "cb_settle" -> acceptedAccountCreated(w, l, cb)
    [] cb.pc = "cb_fetch" ->
         [w |-> w, l |-> l, tag |-> "resolve",
          val |-> Accepted(IF fetched # Null THEN fetched ELSE cb.data)]

(***************************************************************************)
(* fundSurvey and claimRewards                                              *)
(***************************************************************************)
\* The object both entry points build from the resolved offer result:
\* result.data?.offerId || "unknown", result.data?.txn?.transactionHash ||
\* "unknown", height 0.
OfferReply(result) ==
  [k |-> "offerReply", success |-> TRUE,
   offerId |-> IF TruthyObject(result.data) THEN OrElse(result.data.offerId, "unknown")
               ELSE "unknown",
   txHash |-> IF TruthyObject(result.data) THEN OrElse(result.data.txn, "unknown")
              ELSE "unknown",
   height |-> 0]

\* The catch block of fundSurvey.
fundSurveyCatch(w, l, error) ==
  Throw(w, l, CodeError("TRANSACTION_FAILED", getErrorMessage(error)))

\* The await of makeOffer in fundSurvey: r is makeOffer up to its suspension,
\* or its settled promise.
fundSurveyAfterOffer(r) ==
  CASE r.tag = "suspend" -> r
    [] r.tag = "throw" -> fundSurveyCatch(r.w, r.l, r.val)
    [] r.tag = "return" -> Return(r.w, r.l, OfferReply(r.val))

\* After the implicit connectWallet() of fundSurvey.
fundSurveyAfterConnect(r, inp) ==
  CASE r.tag = "suspend" -> r
    [] r.tag = "throw" -> fundSurveyCatch(r.w, r.l, r.val)
    [] r.tag = "return" -> fundSurveyAfterOffer(makeOfferEntry(r.w, r.l, inp))

\* A variant of fundSurvey whose implicit connect targets the session's
\* network.
fundSurveyKeepsNetwork(w, l, inp) ==
  CASE l.pc = "start" ->
         IF l.data # "object" THEN Throw(w, l, DestructureError)
         ELSE IF w.state.wallet = Null
         THEN fundSurveyAfterConnect(connectWalletEntry(w, l, w.state.network, inp), inp)
         ELSE fundSurveyAfterOffer(makeOfferEntry(w, l, inp))
    [] l.pc \in ConnectPcs -> fundSurveyAfterConnect(connectWalletResume(w, l, inp), inp)

\* fundSurvey({ surveyId, messages, denom, totalAmount }): destructuring an
\* absent payload throws outside the try block.
fundSurvey(w, l, inp) ==
  CASE l.pc = "start" ->
         IF l.data # "object" THEN Throw(w, l, DestructureError)
         ELSE IF w.state.wallet = Null
         THEN fundSurveyAfterConnect(connectWalletEntry(w, l, UndefStr, inp), inp)
         ELSE fundSurveyAfterOffer(makeOfferEntry(w, l, inp))
    [] l.pc \in ConnectPcs -> fundSurveyAfterConnect(connectWalletResume(w, l, inp), inp)

\* The catch block of claimRewards.
claimRewardsCatch(w, l, error) ==
  Throw(w, l, CodeError("CLAIM_FAILED", getErrorMessage(error)))

\* The await of makeOffer in claimRewards.
claimRewardsAfterOffer(r) ==
  CASE r.tag = "suspend" -> r
    [] r.tag = "throw" -> claimRewardsCatch(r.w, r.l, r.val)
    [] r.tag = "return" -> Return(r.w, r.l, OfferReply(r.val))

\* After the implicit connectWallet() of claimRewards.
claimRewardsAfterConnect(r, inp) ==
  CASE r.tag = "suspend" -> r
    [] r.tag = "throw" -> claimRewardsCatch(r.w, r.l, r.val)
    [] r.tag = "return" -> claimRewardsAfterOffer(makeOfferEntry(r.w, r.l, inp))

\* A variant of claimRewards whose implicit connect targets the session's
\* network, as signData's does.
claimRewardsKeepsNetwork(w, l, inp) ==
  CASE l.pc = "start" ->
         IF l.data # "object" THEN Throw(w, l, DestructureError)
         ELSE IF w.state.wallet = Null
         THEN claimRewardsAfterConnect(connectWalletEntry(w, l, w.state.network, inp), inp)
         ELSE claimRewardsAfterOffer(makeOfferEntry(w, l, inp))
    [] l.pc \in ConnectPcs -> claimRewardsAfterConnect(connectWalletResume(w, l, inp), inp)

\* claimRewards({ surveyId, messages, denom, totalAmount }).
claimRewards(w, l, inp) ==
  CASE l.pc = "start" ->
         IF l.data # "object" THEN Throw(w, l, DestructureError)
         ELSE IF w.state.wallet = Null
         THEN claimRewardsAfterConnect(connectWalletEntry(w, l, UndefStr, inp), inp)
         ELSE claimRewardsAfterOffer(makeOfferEntry(w, l, inp))
    [] l.pc \in ConnectPcs -> claimRewardsAfterConnect(connectWalletResume(w, l, inp), inp)

(***************************************************************************)
(* Message Router                                                           *)
(***************************************************************************)
\* A variant of the GET_STATUS snapshot that takes the watcher for the
\* connection.
StatusSnapshotOfWatcher(s) ==
  [k |-> "status", initialized |-> s.isInitialized, connected |-> s.watcher # Null,
   address |-> IF s.wallet # Null THEN OrElse(s.wallet.address, NullStr) ELSE NullStr,
   hasBrands |-> s.brands # Null, hasInstance |-> TruthyObject(s.contractInstance),
   hasAccount |-> s.hasAccount,
   accountInvitationId |-> IF s.accountInvitation # Null THEN s.accountInvitation.id ELSE <<>>,
   brandsAvailable |-> IF s.brands # Null THEN s.brands.keys ELSE <<>>,
   network |-> s.network]

\* The GET_STATUS snapshot.
StatusSnapshot(s) ==
  [k |-> "status", initialized |-> s.isInitialized, connected |-> s.wallet # Null,
   address |-> IF s.wallet # Null THEN OrElse(s.wallet.address, NullStr) ELSE NullStr,
   hasBrands |-> s.brands # Null, hasInstance |-> TruthyObject(s.contractInstance),
   hasAccount |-> s.hasAccount,
   accountInvitationId |-> IF s.accountInvitation # Null THEN s.accountInvitation.id ELSE <<>>,
   brandsAvailable |-> IF s.brands # Null THEN s.brands.keys ELSE <<>>,
   network |-> s.network]

\* The AGORIC_RESPONSE messages.
SuccessResponse(id, result) ==
  [type |-> "AGORIC_RESPONSE", id |-> id, success |-> TRUE, data |-> result,
   code |-> UndefStr, message |-> UndefStr]

ErrorResponse(id, error) ==
  [type |-> "AGORIC_RESPONSE", id |-> id, success |-> FALSE, data |-> Undef,
   code |-> OrElse(error.code, "UNKNOWN_ERROR"),
   message |-> OrElse(error.message, "An unknown error occurred")]

\* What one run of a handler leaves: the world, the locals and the messages
\* posted to the parent.
Ran(w, l, out) == [w |-> w, l |-> l, out |-> out]

\* The locals that outlive the listener's return: the request, how it ended,
\* and what the offer's status callback closes over.
Finished(l, outcome, val) ==
  [InitLocal EXCEPT !.pc = "done", !.id = l.id, !.type = l.type, !.data = l.data,
                    !.outcome = outcome, !.overlapped = l.overlapped,
                    !.result = IF outcome = "returned" THEN val ELSE Undef,
                    !.error = IF outcome = "threw" THEN val ELSE Undef,
                    !.submitted = l.submitted,
                    !.accountWasCreated = l.accountWasCreated,
                    !.seatedData = l.seatedData, !.settled = l.settled,
                    !.callbacks = l.callbacks, !.updates = l.updates]

\* A variant of respond that keeps the request id in a variable all
\* invocations share.
respondSharedId(r) ==
  CASE r.tag = "suspend" -> Ran(r.w, r.l, <<>>)
    [] r.tag = "return" ->
         Ran(r.w, Finished(r.l, "returned", r.val),
             <<SuccessResponse("r1", r.val)>>)
    [] r.tag = "throw" ->
         Ran(r.w, Finished(r.l, "threw", r.val),
             <<ErrorResponse("r1", r.val)>>)

\* The end of the listener's try block: a branch that returned is answered
\* with a success response, one that threw with an error response; a branch
\* suspended at an await posts nothing yet.
respond(r) ==
  CASE r.tag = "suspend" -> Ran(r.w, r.l, <<>>)
    [] r.tag = "return" ->
         Ran(r.w, Finished(r.l, "returned", r.val),
             <<SuccessResponse(r.l.id, r.val)>>)
    [] r.tag = "throw" ->
         Ran(r.w, Finished(r.l, "threw", r.val),
             <<ErrorResponse(r.l.id, r.val)>>)

\* The switch of the listener, entered with the request just destructured
\* (pc = "start") or resumed inside the branch it awaits.
dispatch(w, l, inp) ==
  CASE l.type = "CONNECT_WALLET" ->
         IF l.pc = "start"
         THEN IF l.data = "null" THEN Throw(w, l, DestructureError)
              ELSE connectWalletEntry(w, l, IF l.data = "object" THEN l.network ELSE UndefStr, inp)
         ELSE connectWalletResume(w, l, inp)
    [] l.type = "SIGN_DATA" -> signData(w, l, inp)
    [] l.type = "FUND_SURVEY" -> fundSurvey(w, l, inp)
    [] l.type = "CLAIM_REWARDS" -> claimRewards(w, l, inp)
    [] l.type = "GET_STATUS" -> Return(w, l, StatusSnapshot(w.state))

\* A variant of the listener whose default case throws.
listenerAnswersUnknown(w, l, inp) ==
  IF l.type \in ReservedTags THEN Ran(w, Finished(l, "ignored", Undef), <<>>)
  ELSE IF l.type \notin Operations
  THEN respond(Throw(w, l, CodeError("UNKNOWN_ERROR", "Unknown message type")))
  ELSE respond(dispatch(w, l, inp))

\* The message listener from the receipt of a message to its first await or
\* its end: the reserved tags and unknown types return without a reply.
listener(w, l, inp) ==
  IF l.type \in ReservedTags THEN Ran(w, Finished(l, "ignored", Undef), <<>>)
  ELSE IF l.type \notin Operations THEN Ran(w, Finished(l, "ignored", Undef), <<>>)
  ELSE respond(dispatch(w, l, inp))

\* The promise makeOffer returned settles: the awaiting fundSurvey or
\* claimRewards continues and the listener answers.
offerSettled(w, l, tag, val) ==
  LET r == IF tag = "resolve" THEN Return(w, [l EXCEPT !.settled = "resolved"], val)
           ELSE Throw(w, [l EXCEPT !.settled = "rejected"], val)
  IN IF l.type = "FUND_SURVEY" THEN respond(fundSurveyAfterOffer(r))
     ELSE respond(claimRewardsAfterOffer(r))

\* A variant of afterCallback in which a settled promise settles again.
afterCallbackSettlesAgain(r, data) ==
  CASE r.tag \in {"resolve", "reject"} -> offerSettled(r.w, r.l, r.tag, r.val)
    [] r.tag = "settle" ->
         Ran(r.w, [r.l EXCEPT !.callbacks =
                     Append(@, [pc |-> "cb_settle", data |-> data])], <<>>)
    [] r.tag = "fetch" ->
         Ran(r.w, [r.l EXCEPT !.callbacks =
                     Append(@, [pc |-> "cb_fetch", data |-> r.val])], <<>>)
    [] OTHER -> Ran(r.w, r.l, <<>>)

\* What a run of the status callback does to the offer's handler: a resolve
\* or reject settles a pending promise and is ignored by a settled one; a
\* callback suspended at an await is kept in callbacks.
afterCallback(r, data) ==
  CASE r.tag \in {"resolve", "reject"} ->
         IF r.l.settled = "pending" THEN offerSettled(r.w, r.l, r.tag, r.val)
         ELSE Ran(r.w, r.l, <<>>)
    [] r.tag = "settle" ->
         Ran(r.w, [r.l EXCEPT !.callbacks =
                     Append(@, [pc |-> "cb_settle", data |-> data])], <<>>)
    [] r.tag = "fetch" ->
         Ran(r.w, [r.l EXCEPT !.callbacks =
                     Append(@, [pc |-> "cb_fetch", data |-> r.val])], <<>>)
    [] OTHER -> Ran(r.w, r.l, <<>>)

\* A sequence without its n-th element.
Without(seq, n) == SubSeq(seq, 1, n - 1) \o SubSeq(seq, n + 1, Len(seq))

(***************************************************************************)
(* The state machine                                                        *)
(***************************************************************************)
\* The payloads a message of a type is sent with.
Payload(data, network, denom) == [data |-> data, network |-> network, denom |-> denom]

PayloadsOf(type, D) ==
  CASE type = "CONNECT_WALLET" ->
         {Payload("object", n, <<>>) : n \in D.networks}
         \cup {Payload(d, UndefStr, <<>>) : d \in D.absent}
    [] type = "SIGN_DATA" ->
         {Payload("object", UndefStr, <<>>)}
         \cup {Payload(d, UndefStr, <<>>) : d \in D.absent \ {"null"}}
    [] type \in {"FUND_SURVEY", "CLAIM_REWARDS"} ->
         {Payload("object", UndefStr, d) : d \in D.denoms}
         \cup {Payload(d, UndefStr, <<>>) : d \in D.absent \ {"null"}}
    [] OTHER -> {Payload("undefined", UndefStr, <<>>)}

\* The outcomes of the calls a handler makes without awaiting them: creating
\* a watcher, and submitting the offer (only fundSurvey and claimRewards do,
\* once a wallet exists).
SyncInputs(l, D) ==
  {Input(TRUE, NewError(""), wok, TRUE, Null) : wok \in BOOLEAN}
  \cup IF l.type \in {"FUND_SURVEY", "CLAIM_REWARDS"}
          /\ (state.wallet # Null \/ l.pc = "cw_settleWallet")
       THEN {Input(TRUE, f, TRUE, FALSE, Null) : f \in D.failures}
       ELSE {}

\* The outcomes of an awaited external call.
AwaitInputs(D) ==
  {Input(TRUE, NewError(""), TRUE, TRUE, Null)}
  \cup {Input(FALSE, f, TRUE, TRUE, Null) : f \in D.failures}

\* The environment of the sandbox: the requests the parent sends, one at a
\* time, and everything the collaborators can answer.
Sequential ==
  [ids |-> {"r1"}, types |-> MessageTypes, networks |-> PayloadNetworks,
   absent |-> {"undefined", "null"}, denoms |-> PayloadDenoms,
   failures |-> ExternalFailures, updates |-> OfferUpdates,
   instances |-> {ContractInstance}, brands |-> BrandRegistries,
   records |-> WalletRecords \cup {Null}, recycle |-> TRUE]

\* The environment with two requests in flight at once, over fewer answers
\* of the collaborators.
Overlapping ==
  [ids |-> ReqIds, types |-> Operations, networks |-> {UndefStr, "mainnet"},
   absent |-> {}, denoms |-> {<<"U", "b", "l", "d">>},
   failures |-> {NewError("Request rejected")},
   updates |-> {Update("error", NewError("Request rejected")),
                Update("seated", Data("tx-seated", "offer-1")),
                Update("accepted", Undef), Update("refunded", Undef)},
   instances |-> {ContractInstance}, brands |-> {Brands(<<"BLD", "IST">>)},
   records |-> {WalletRecord(<<Entry(<<"c">>, "otherInvitation")>>), Null},
   recycle |-> FALSE]

Init ==
  /\ state = InitialState
  /\ subs = {}
  /\ keplr \in BOOLEAN
  /\ initPc = "load"
  /\ readyCount = 0
  /\ h = [i \in ReqIds |-> InitLocal]
  /\ replies = [i \in ReqIds |-> <<>>]

\* Once the promise of an offer is settled, resolve and reject do nothing
\* more, so what only they would read is dropped from the locals: seatedData,
\* the data of a callback waiting for its settle delay, and the callbacks
\* waiting for the REST lookup.
Forget(l) ==
  IF l.settled \in {"resolved", "rejected"}
  THEN [l EXCEPT !.seatedData = Null,
                 !.callbacks = [n \in 1..Len(SelectSeq(@, LAMBDA cb : cb.pc = "cb_settle")) |->
                                  [pc |-> "cb_settle", data |-> Undef]]]
  ELSE l

\* Whether a handler is suspended at an await.
InFlight(l) == l.pc \notin {"idle", "done"}

\* The effect of one run of the handler of request i: the messages it posts
\* are filed under the id they carry.  A request just received (fresh) takes
\* the slot of the last one, whose replies are dropped.
Apply(i, ran, fresh) ==
  /\ state' = ran.w.state
  /\ subs' = ran.w.subs
  /\ h' = [j \in ReqIds |->
             IF j = i
             THEN [Forget(ran.l) EXCEPT !.overlapped =
                     IF fresh THEN \E o \in ReqIds \ {i} : InFlight(h[o]) ELSE @]
             ELSE [h[j] EXCEPT !.overlapped = @ \/ (fresh /\ InFlight(h[j]) /\ InFlight(ran.l))]]
  /\ replies' = [j \in ReqIds |->
                   (IF j = i /\ fresh THEN <<>> ELSE replies[j])
                   \o SelectSeq(ran.out, LAMBDA m : m.id = j)]
  /\ UNCHANGED <<keplr, initPc, readyCount>>

\* A variant of initialize() that goes on after a failed watcher setup.
InitializeSwallowsFailure ==
  /\ initPc = "load"
  /\ \E watcherOk \in BOOLEAN :
       LET r == setupWatcher(World(state, subs), InitLocal, "mainnet", watcherOk)
       IN /\ state' = r.w.state
          /\ subs' = r.w.subs
          /\ initPc' = "settle"
  /\ UNCHANGED <<keplr, readyCount, h, replies>>

\* initialize(), called as the script is loaded, up to its settle delay.
Initialize ==
  /\ initPc = "load"
  /\ \E watcherOk \in BOOLEAN :
       LET r == setupWatcher(World(state, subs), InitLocal, "mainnet", watcherOk)
       IN /\ state' = r.w.state
          /\ subs' = r.w.subs
          /\ initPc' = IF r.tag = "throw" THEN "failed" ELSE "settle"
  /\ UNCHANGED <<keplr, readyCount, h, replies>>

\* initialize() after its settle delay: the flag, the network and AGORIC_READY.
InitializeReady ==
  /\ initPc = "settle"
  /\ state' = [state EXCEPT !.isInitialized = TRUE, !.network = "mainnet"]
  /\ readyCount' = readyCount + 1
  /\ initPc' = "ready"
  /\ UNCHANGED <<subs, keplr, h, replies>>

\* A message event: the listener runs to its first await or to its end.  The
\* slot i takes a new request once its last one is over, and then holds the
\* replies to the new one.
Receive(i, D) ==
  /\ initPc # "load"
  /\ h[i].pc = "idle" \/ (D.recycle /\ h[i].pc = "done" /\ h[i].callbacks = <<>>)
  /\ \E type \in D.types : \E p \in PayloadsOf(type, D) :
       LET l == [InitLocal EXCEPT !.pc = "start", !.id = i, !.type = type,
                                  !.data = p.data, !.network = p.network,
                                  !.denom = p.denom]
       IN \E inp \in IF type \in Operations \ {"GET_STATUS"} THEN SyncInputs(l, D)
                      ELSE {NoInput} :
            Apply(i, listener(World(state, subs), l, inp), TRUE)

\* A settle delay of connectWallet elapses.
SettleDelayElapses(i, D) ==
  /\ h[i].pc \in {"cw_settleWatcher", "cw_settleWallet"}
  /\ \E inp \in SyncInputs(h[i], D) :
       Apply(i, respond(dispatch(World(state, subs), h[i], inp)), FALSE)

\* suggestChain resolves or rejects.
SuggestChainSettles(i, D) ==
  /\ h[i].pc = "cw_suggestChain"
  /\ \E inp \in AwaitInputs(D) : Apply(i, respond(dispatch(World(state, subs), h[i], inp)), FALSE)

\* makeAgoricWalletConnection resolves or rejects.
WalletConnectionSettles(i, D) ==
  /\ h[i].pc = "cw_walletConnection"
  /\ \E inp \in AwaitInputs(D) : Apply(i, respond(dispatch(World(state, subs), h[i], inp)), FALSE)

\* keplr.signAmino resolves or rejects.
SignAminoSettles(i, D) ==
  /\ h[i].pc = "sd_signAmino"
  /\ \E inp \in AwaitInputs(D) : Apply(i, respond(dispatch(World(state, subs), h[i], inp)), FALSE)

\* The wallet delivers a status update to the callback of the offer of i.
OfferStatusUpdate(i, D) ==
  /\ h[i].submitted
  /\ h[i].updates < MaxUpdates
  /\ \E u \in D.updates :
       LET l1 == [h[i] EXCEPT !.updates = @ + 1]
       IN Apply(i, afterCallback(statusCallback(World(state, subs), l1, u), u.data), FALSE)

\* The settle delay of an accepted callback elapses.
CallbackDelayElapses(i) ==
  \E n \in 1..Len(h[i].callbacks) :
    /\ h[i].callbacks[n].pc = "cb_settle"
    /\ LET cb == h[i].callbacks[n]
           l1 == [h[i] EXCEPT !.callbacks = Without(@, n)]
       IN Apply(i, afterCallback(statusCallbackResume(World(state, subs), l1, cb, Null),
                                 cb.data), FALSE)

\* The REST lookup of an accepted callback ends, with a transaction or none.
FetchSettles(i) ==
  \E n \in 1..Len(h[i].callbacks) :
    /\ h[i].callbacks[n].pc = "cb_fetch"
    /\ \E fetched \in {Null, ApiData} :
         LET cb == h[i].callbacks[n]
             l1 == [h[i] EXCEPT !.callbacks = Without(@, n)]
         IN Apply(i, afterCallback(statusCallbackResume(World(state, subs), l1, cb, fetched),
                                   cb.data), FALSE)

\* The instance subscription of a watcher delivers the published instances:
\* QstnContract is among them or not.
WatchInstances(D) ==
  /\ \E s \in subs : s.path = "instance"
  /\ \E found \in D.instances : state' = [state EXCEPT !.contractInstance = found]
  /\ UNCHANGED <<subs, keplr, initPc, readyCount, h, replies>>

\* The brand subscription of a watcher delivers the published brands.
WatchBrands(D) ==
  /\ \E s \in subs : s.path = "brand"
  /\ \E brands \in D.brands : state' = [state EXCEPT !.brands = brands]
  /\ UNCHANGED <<subs, keplr, initPc, readyCount, h, replies>>

\* The wallet-record subscription delivers a record; an empty value is
\* ignored.
WatchWalletRecord(D) ==
  /\ \E s \in subs : s.path = "wallet"
  /\ \E currentWalletRecord \in D.records :
       state' = IF currentWalletRecord = Null THEN state
                ELSE [state EXCEPT !.currentWalletRecord = currentWalletRecord]
  /\ UNCHANGED <<subs, keplr, initPc, readyCount, h, replies>>

NextIn(D) ==
  \/ Initialize
  \/ InitializeReady
  \/ \E i \in D.ids : Receive(i, D)
  \/ \E i \in D.ids : SettleDelayElapses(i, D)
  \/ \E i \in D.ids : SuggestChainSettles(i, D)
  \/ \E i \in D.ids : WalletConnectionSettles(i, D)
  \/ \E i \in D.ids : SignAminoSettles(i, D)
  \/ \E i \in D.ids : OfferStatusUpdate(i, D)
  \/ \E i \in D.ids : CallbackDelayElapses(i)
  \/ \E i \in D.ids : FetchSettles(i)
  \/ WatchInstances(D)
  \/ WatchBrands(D)
  \/ WatchWalletRecord(D)

Next == NextIn(Sequential)

Spec == Init /\ [][Next]_vars

NextOverlapping == NextIn(Overlapping)

SpecOverlapping == Init /\ [][NextOverlapping]_vars

C2_ReplyOfOwnHandler ==
  \A i \in ReqIds :
    IF h[i].pc = "done"
    THEN /\ Len(replies[i]) = 1
         /\ replies[i][1].id = h[i].id
         /\ replies[i][1].success = (h[i].outcome = "returned")
         /\ replies[i][1].success => replies[i][1].data = h[i].result
         /\ ~replies[i][1].success => replies[i][1].code = OrElse(h[i].error.code, "UNKNOWN_ERROR")
    ELSE replies[i] = <<>>

\* Two requests that were in flight together have both been answered, one
\* with success and the other with a failure.
C2_Witness ==
  /\ h["r1"].overlapped /\ h["r2"].overlapped
  /\ h["r1"].pc = "done" /\ h["r2"].pc = "done"
  /\ h["r1"].type # h["r2"].type
  /\ Len(replies["r1"]) = 1 /\ Len(replies["r2"]) = 1
  /\ replies["r1"][1].success /\ ~replies["r2"][1].success

\* C3: a message whose type is a reserved tag or is not an operation ends its
\* listener at once, posts nothing and leaves the Session State, the
\* subscriptions and the announcements as they were.
C3_IgnoredWithoutEffect ==
  [][\A i \in ReqIds :
       (h'[i] # h[i] /\ h'[i].type \notin Operations)
       => /\ h'[i].pc = "done"
          /\ replies'[i] = <<>>
          /\ \A j \in ReqIds \ {i} : replies'[j] = replies[j]
          /\ state' = state
          /\ subs' = subs
          /\ readyCount' = readyCount]_vars

\* A reserved tag was received with a wallet connected, and nothing answered.
C3_Witness ==
  \E i \in ReqIds :
    /\ h[i].pc = "done"
    /\ h[i].type = "AGORIC_READY"
    /\ state.wallet # Null
    /\ replies[i] = <<>>

\* C4: a success reply carries the value the handler returned; a failure reply
\* carries the code of the caught failure, or UNKNOWN_ERROR when it has none,
\* and as message the failure's textual description: the message of an Error,
\* a string itself, the message of an object that has one, and else the
\* stringified failure, "[object Object]" standing for an empty rendering.
C4_ReplyDescribesFailure ==
  LET Description(error) ==
        IF error.k = "Error" THEN error.message
        ELSE IF error.k = "string" THEN error.text
        ELSE IF error.hasMessage /\ error.message # UndefStr THEN error.message
        ELSE IF error.text \in {"{}", "null"} THEN "[object Object]"
        ELSE error.text
  IN \A i \in ReqIds : \A n \in 1..Len(replies[i]) :
       IF replies[i][n].success
       THEN h[i].outcome = "returned" /\ replies[i][n].data = h[i].result
       ELSE /\ h[i].outcome = "threw"
            /\ replies[i][n].code = OrElse(h[i].error.code, "UNKNOWN_ERROR")
            /\ replies[i][n].message = Description(h[i].error)

C6_ConnectFailureCodes ==
  \A i \in ReqIds : \A n \in 1..Len(replies[i]) :
    (h[i].type = "CONNECT_WALLET" /\ ~replies[i][n].success)
    => /\ replies[i][n].code \in {"KEPLR_NOT_INSTALLED", "CONNECTION_FAILED"}
       /\ replies[i][n].code = "KEPLR_NOT_INSTALLED" => ~keplr

\* C7: a CONNECT_WALLET whose extension check, chain suggestion and wallet
\* connection have succeeded, so that it waits for its second settle delay,
\* ends with a success reply that carries the connected address.
C7_ConnectedIsAnswered ==
  [][\A i \in ReqIds :
       (h[i].type = "CONNECT_WALLET" /\ h[i].pc = "cw_settleWallet" /\ h'[i].pc = "done")
       => /\ Len(replies'[i]) = 1
          /\ replies'[i][1].success
          /\ replies'[i][1].data = [k |-> "connected", address |-> h[i].wallet.address]]_vars

\* C8: a failure reply to SIGN_DATA carries SIGNING_FAILED whatever failed,
\* the implicit connect included, and a success reply carries the signed
\* document and the signature.
C8_SignReplies ==
  \A i \in ReqIds : \A n \in 1..Len(replies[i]) :
    h[i].type = "SIGN_DATA"
    => IF replies[i][n].success
       THEN replies[i][n].data.k = "signed"
       ELSE replies[i][n].code = "SIGNING_FAILED"

(***************************************************************************)
(* Offer Orchestrator: properties                                           *)
(***************************************************************************)
\* C9: a failure reply to FUND_SURVEY carries TRANSACTION_FAILED and one to
\* CLAIM_REWARDS carries CLAIM_FAILED, whatever failed; and an error status
\* update rejects the offer with the message extracted from its payload.
C9_OfferFailureCodes ==
  /\ \A i \in ReqIds : \A n \in 1..Len(replies[i]) :
       ~replies[i][n].success
       => /\ h[i].type = "FUND_SURVEY" => replies[i][n].code = "TRANSACTION_FAILED"
          /\ h[i].type = "CLAIM_REWARDS" => replies[i][n].code = "CLAIM_FAILED"
  /\ \A i \in ReqIds : \A f \in ExternalFailures :
       LET r == statusCallback(World(state, subs), h[i], Update("error", f))
       IN r.tag = "reject" /\ r.val.message = getErrorMessage(f)

\* C10: fundSurvey and claimRewards are one procedure but for the failure
\* code.  In every reachable state, each step a FUND_SURVEY handler can take
\* and the same step of a CLAIM_REWARDS handler in its place (the receipt of
\* the request, the resumption of the implicit connect, a status update of
\* the offer, the resumption of a status callback) leave the same Session State and
\* subscriptions, the same locals and the same replies, apart from
\* TRANSACTION_FAILED against CLAIM_FAILED; and a success reply of either is
\* { success: true, offerId, txHash, height: 0 }.
C10_EntryPointsEquivalent ==
  LET W == World(state, subs)
      As(l, type) == [l EXCEPT !.type = type]
      SameCode(c, d) == c = d \/ (c = "TRANSACTION_FAILED" /\ d = "CLAIM_FAILED")
      Neutral(l) ==
        [l EXCEPT !.type = "", !.error = IF @ = Undef THEN @ ELSE [@ EXCEPT !.code = "", !.text = ""]]
      Same(a, b) ==
        /\ a.w = b.w
        /\ Neutral(a.l) = Neutral(b.l)
        /\ (a.l.error = Undef) = (b.l.error = Undef)
        /\ a.l.error # Undef => SameCode(a.l.error.code, b.l.error.code)
        /\ Len(a.out) = Len(b.out)
        /\ \A n \in 1..Len(a.out) :
             /\ [a.out[n] EXCEPT !.code = ""] = [b.out[n] EXCEPT !.code = ""]
             /\ SameCode(a.out[n].code, b.out[n].code)
      Received(i, type, p) ==
        [InitLocal EXCEPT !.pc = "start", !.id = i, !.type = type, !.data = p.data,
                          !.network = p.network, !.denom = p.denom]
      Resumed(l) ==
        IF l.pc \in {"cw_settleWatcher", "cw_settleWallet"} THEN SyncInputs(l, Sequential)
        ELSE AwaitInputs(Sequential)
  IN \A i \in Sequential.ids :
       /\ (h[i].pc = "idle" \/ (h[i].pc = "done" /\ h[i].callbacks = <<>>))
          => \A p \in PayloadsOf("FUND_SURVEY", Sequential) :
               \A inp \in SyncInputs(Received(i, "FUND_SURVEY", p), Sequential) :
                 Same(listener(W, Received(i, "FUND_SURVEY", p), inp),
                      listener(W, Received(i, "CLAIM_REWARDS", p), inp))
       /\ h[i].type \in {"FUND_SURVEY", "CLAIM_REWARDS"}
          => /\ h[i].pc \in ConnectPcs
                => \A inp \in Resumed(h[i]) :
                     Same(respond(dispatch(W, As(h[i], "FUND_SURVEY"), inp)),
                          respond(dispatch(W, As(h[i], "CLAIM_REWARDS"), inp)))
             /\ (h[i].submitted /\ h[i].updates < MaxUpdates)
                => \A u \in Sequential.updates :
                     Same(afterCallback(statusCallback(W, As(h[i], "FUND_SURVEY"), u), u.data),
                          afterCallback(statusCallback(W, As(h[i], "CLAIM_REWARDS"), u), u.data))
             /\ \A n \in 1..Len(h[i].callbacks) : \A fetched \in {Null, ApiData} :
                  LET cb == h[i].callbacks[n]
                      l1 == [h[i] EXCEPT !.callbacks = Without(@, n)]
                  IN Same(afterCallback(statusCallbackResume(W, As(l1, "FUND_SURVEY"), cb, fetched),
                                        cb.data),
                          afterCallback(statusCallbackResume(W, As(l1, "CLAIM_REWARDS"), cb, fetched),
                                        cb.data))
             /\ \A n \in 1..Len(replies[i]) :
                  replies[i][n].success
                  => /\ replies[i][n].data.k = "offerReply"
                     /\ replies[i][n].data.success
                     /\ replies[i][n].data.height = 0

\* A CLAIM_REWARDS was answered with the transaction hash the REST lookup
\* found.
C10_Witness ==
  \E i \in ReqIds :
    /\ h[i].type = "CLAIM_REWARDS"
    /\ h[i].pc = "done"
    /\ Len(replies[i]) = 1
    /\ replies[i][1].success
    /\ replies[i][1].data.txHash = "tx-api"
    /\ replies[i][1].data.height = 0

(***************************************************************************)
(* GET_STATUS and AGORIC_READY: properties                                  *)
(***************************************************************************)
\* C11 (as amended): in every reachable state a GET_STATUS request runs to
\* its end without suspending, leaves the Session State and the
\* subscriptions as they are and is answered with success and a snapshot of
\* the state at that moment; every GET_STATUS answered before initialization
\* completes reports initialized:false, and connected:false when no wallet
\* handle exists (a connect may have completed before initialization did).
C11_StatusSnapshot ==
  /\ \A i \in Sequential.ids :
       LET W == World(state, subs)
           r == listener(W, [InitLocal EXCEPT !.pc = "start", !.id = i, !.type = "GET_STATUS"],
                         NoInput)
       IN /\ r.w = W
          /\ r.l.pc = "done"
          /\ Len(r.out) = 1
          /\ r.out[1].type = "AGORIC_RESPONSE"
          /\ r.out[1].id = i
          /\ r.out[1].success
          /\ r.out[1].data.initialized = state.isInitialized
          /\ r.out[1].data.connected = (state.wallet # Null)
          /\ r.out[1].data.address = IF state.wallet # Null THEN state.wallet.address ELSE NullStr
          /\ r.out[1].data.hasBrands = (state.brands # Null)
          /\ r.out[1].data.hasInstance = (state.contractInstance \notin {Null, Undef})
          /\ r.out[1].data.brandsAvailable = IF state.brands # Null THEN state.brands.keys ELSE <<>>
          /\ r.out[1].data.network = state.network
  /\ \A i \in ReqIds :
       (h[i].type = "GET_STATUS" /\ h[i].pc = "done")
       => /\ Len(replies[i]) = 1
          /\ replies[i][1].success
          /\ initPc # "ready" => ~replies[i][1].data.initialized
          /\ ~replies[i][1].data.connected => replies[i][1].data.address = NullStr

\* A GET_STATUS was answered before initialization completed, with a wallet
\* already connected.
C11_Witness ==
  \E i \in ReqIds :
    /\ h[i].type = "GET_STATUS"
    /\ h[i].pc = "done"
    /\ initPc # "ready"
    /\ Len(replies[i]) = 1
    /\ replies[i][1].success
    /\ ~replies[i][1].data.initialized
    /\ replies[i][1].data.connected

\* C11 (as stated): GET_STATUS is answered with success and the snapshot, and
\* a GET_STATUS answered before initialization completes reports
\* initialized:false and connected:false.
C11_StatusBeforeReady ==
  \A i \in ReqIds :
    (h[i].type = "GET_STATUS" /\ h[i].pc = "done")
    => /\ Len(replies[i]) = 1
       /\ replies[i][1].success
       /\ initPc # "ready"
          => (~replies[i][1].data.initialized /\ ~replies[i][1].data.connected)

\* C12: AGORIC_READY is posted at most once, and only by initialize() after
\* the watcher was started, the settle delay elapsed and the initialization
\* flag was set; it is never posted after a failed watcher setup, and no
\* message posted in answer to a request is an AGORIC_READY.
C12_ReadyOnce ==
  /\ readyCount = IF initPc = "ready" THEN 1 ELSE 0
  /\ readyCount = 1 => (state.watcher # Null /\ state.isInitialized)
  /\ initPc = "failed" => (readyCount = 0 /\ ~state.isInitialized)
  /\ \A i \in ReqIds : \A n \in 1..Len(replies[i]) :
       replies[i][n].type = "AGORIC_RESPONSE" /\ replies[i][n].id = i

\* AGORIC_READY was posted after a GET_STATUS had been answered with
\* initialized:false.
C12_Witness ==
  /\ readyCount = 1
  /\ \E i \in ReqIds : /\ h[i].type = "GET_STATUS"
                       /\ h[i].pc = "done"
                       /\ Len(replies[i]) = 1
                       /\ replies[i][1].success
                       /\ ~replies[i][1].data.initialized

(***************************************************************************)
(* Network Profile Registry: getConfig applied to one name at a time        *)
(***************************************************************************)
\* The names getConfig is called with: undefined, null, the empty string,
\* the names of the profiles in both cases, near misses of them and the
\* names of inherited properties.
NetworkNames ==
  {p \o q : p \in {"main", "dev", "emery", "local", "DEV", "Main", "test", "agoric-", "x"},
            q \in {"net", "NET", "", "nets", "-net", "3"}}
  \cup {UndefStr, NullStr, "", "constructor", "toString", "__proto__"}

InitRegistry ==
  /\ state = InitialState
  /\ subs = {}
  /\ keplr = FALSE
  /\ initPc = "load"
  /\ readyCount = 0
  /\ \E network \in NetworkNames :
       h = [i \in ReqIds |-> IF i = "r1"
                             THEN [InitLocal EXCEPT !.pc = "start", !.type = "getConfig",
                                                    !.network = network]
                             ELSE InitLocal]
  /\ replies = [i \in ReqIds |-> <<>>]

\* const config = getConfig(network).
GetConfig ==
  /\ h["r1"].pc = "start"
  /\ h["r1"].type = "getConfig"
  /\ h' = [h EXCEPT !["r1"].pc = "done", !["r1"].result = getConfig(h["r1"].network)]
  /\ UNCHANGED <<state, subs, keplr, initPc, readyCount, replies>>

NextRegistry == GetConfig

SpecRegistry == InitRegistry /\ [][NextRegistry]_vars

\* C13: getConfig returns the profile of the name for mainnet, devnet,
\* emerynet and local, and the devnet profile for every other input.
C13_UnknownIsDevnet ==
  (h["r1"].type = "getConfig" /\ h["r1"].pc = "done")
  => h["r1"].result = IF h["r1"].network \in {"mainnet", "devnet", "emerynet", "local"}
                      THEN networkConfigs[h["r1"].network]
                      ELSE networkConfigs.devnet

(***************************************************************************)
(* Offer Orchestrator: terminal statuses                                    *)
(***************************************************************************)
\* C14: a FUND_SURVEY or CLAIM_REWARDS whose offer is submitted has no reply
\* while the promise of the offer is pending, and no seated or unrecognized
\* status settles it, starts a callback that could, or posts anything: the
\* request is answered only after an accepted, error or refunded status, and
\* stays unanswered for as long as none is delivered.
C14_AnsweredOnlyAfterTerminal ==
  \A i \in ReqIds :
    (h[i].type \in {"FUND_SURVEY", "CLAIM_REWARDS"} /\ h[i].submitted)
    => /\ replies[i] # <<>> => h[i].settled \in {"resolved", "rejected"}
       /\ h[i].settled = "pending"
          => /\ replies[i] = <<>>
             /\ h[i].pc = "mo_offer"
             /\ \A u \in Sequential.updates :
                  u.status \notin {"accepted", "error", "refunded"}
                  => LET r == afterCallback(statusCallback(World(state, subs), h[i], u), u.data)
                     IN /\ r.out = <<>>
                        /\ r.w = World(state, subs)
                        /\ r.l.settled = "pending"
                        /\ r.l.pc = "mo_offer"
                        /\ r.l.callbacks = h[i].callbacks

\* An offer has got all its status updates, a seated one among them and no
\* terminal one, and its request is unanswered.
C14_Witness ==
  \E i \in ReqIds :
    /\ h[i].type = "FUND_SURVEY"
    /\ h[i].submitted
    /\ h[i].updates = MaxUpdates
    /\ h[i].seatedData # Null
    /\ h[i].callbacks = <<>>
    /\ h[i].settled = "pending"
    /\ replies[i] = <<>>

(***************************************************************************)
(* Account Invitation Resolver: getAccountInvitation applied to one wallet  *)
(* record at a time                                                         *)
(***************************************************************************)
\* How many entries the offerToUsedInvitation of a wallet record has.
MaxEntries == 3

EntryIds == {<<"a">>, <<"b">>, <<"9">>, <<"1", "0">>}

Descriptions == {AccountDescription, "otherInvitation", UndefStr}

\* The wallet records of up to MaxEntries entries, each id occurring once.
ResolverRecords ==
  {WalletRecord(entries) :
     entries \in {es \in UNION {[1..n -> {Entry(id, d) : id \in EntryIds, d \in Descriptions}] :
                                  n \in 0..MaxEntries} :
                    \A m, n \in 1..Len(es) : m # n => es[m].id # es[n].id}}

InitResolver ==
  /\ \E watcher \in {Null, Watcher("mainnet")}, wallet \in {Null, Wallet(KeplrAddress)},
        currentWalletRecord \in ResolverRecords \cup {Null} :
       state = [InitialState EXCEPT !.watcher = watcher, !.wallet = wallet,
                                    !.network = IF watcher = Null THEN NullStr ELSE "mainnet",
                                    !.currentWalletRecord = currentWalletRecord]
  /\ subs = {}
  /\ keplr = TRUE
  /\ initPc = "load"
  /\ readyCount = 0
  /\ h = [i \in ReqIds |-> IF i = "r1"
                           THEN [InitLocal EXCEPT !.pc = "start", !.type = "getAccountInvitation"]
                           ELSE InitLocal]
  /\ replies = [i \in ReqIds |-> <<>>]

\* const invitation = getAccountInvitation().
GetAccountInvitation ==
  /\ h["r1"].pc = "start"
  /\ h["r1"].type = "getAccountInvitation"
  /\ LET r == getAccountInvitation(World(state, subs), h["r1"])
     IN /\ state' = r.w.state
        /\ subs' = r.w.subs
        /\ h' = [h EXCEPT !["r1"] = [r.l EXCEPT !.pc = "done",
                                               !.outcome = IF r.tag = "throw" THEN "threw"
                                                           ELSE "returned",
                                               !.result = IF r.tag = "throw" THEN Undef ELSE r.val,
                                               !.error = IF r.tag = "throw" THEN r.val ELSE Undef]]
  /\ UNCHANGED <<keplr, initPc, readyCount, replies>>

NextResolver == GetAccountInvitation

SpecResolver == InitResolver /\ [][NextResolver]_vars

\* C17: called with no wallet record in the Session State, the resolver
\* registers the wallet-record watch (when a watcher and a wallet exist) and
\* returns null without raising.
C17_NoRecordReturnsNone ==
  (h["r1"].type = "getAccountInvitation" /\ h["r1"].pc = "done"
     /\ state.currentWalletRecord = Null)
  => /\ h["r1"].outcome = "returned"
     /\ h["r1"].result = Null
     /\ (state.watcher # Null /\ state.wallet # Null)
        => Sub(state.watcher, "wallet") \in subs

\* C18: with a wallet record, the resolver returns null when no entry has the
\* description qstnAccountKitInvitation in the first element of its value,
\* and else the entry with that description whose id comes last in string
\* order; it does not raise and registers no watch.
C18_LatestMatchingEntry ==
  (h["r1"].type = "getAccountInvitation" /\ h["r1"].pc = "done"
     /\ state.currentWalletRecord # Null)
  => LET entries == state.currentWalletRecord.offerToUsedInvitation
         Matches(n) == entries[n].description = "qstnAccountKitInvitation"
         Rank(c) == CHOOSE k \in 1..Len(Chars) : Chars[k] = c
         RECURSIVE Before(_, _)
         Before(a, b) ==
           IF b = <<>> THEN FALSE
           ELSE IF a = <<>> THEN TRUE
           ELSE IF Rank(Head(a)) # Rank(Head(b)) THEN Rank(Head(a)) < Rank(Head(b))
           ELSE Before(Tail(a), Tail(b))
     IN /\ h["r1"].outcome = "returned"
        /\ subs = {}
        /\ IF \A n \in 1..Len(entries) : ~Matches(n)
           THEN h["r1"].result = Null
           ELSE /\ h["r1"].result # Null
                /\ \E n \in 1..Len(entries) : Matches(n) /\ entries[n].id = h["r1"].result.id
                /\ \A n \in 1..Len(entries) :
                     Matches(n) => ~Before(h["r1"].result.id, entries[n].id)

\* The record has matching entries "a" and "b", in this order, and one that
\* does not match, and the resolver returned "b".
C18_Witness ==
  /\ h["r1"].type = "getAccountInvitation"
  /\ h["r1"].pc = "done"
  /\ state.currentWalletRecord =
       WalletRecord(<<Entry(<<"a">>, AccountDescription), Entry(<<"b">>, AccountDescription),
                      Entry(<<"9">>, "otherInvitation")>>)
  /\ h["r1"].result = Invitation(Entry(<<"b">>, AccountDescription))

(***************************************************************************)
(* Offer Orchestrator: makeOffer applied to one submission at a time       *)
(***************************************************************************)
\* The denoms of the submissions.
OfferDenoms ==
  {<<"u", "b", "l", "d">>, <<"U", "B", "L", "D">>, <<"U", "b", "l", "d">>, <<"u", "B", "l", "D">>,
   <<"i", "s", "t">>, <<"I", "S", "T">>, <<"b", "l", "d">>, <<"B", "L", "D">>,
   <<"u", "i", "s", "t">>}

\* The brand registries of the submissions.
OfferRegistries ==
  {Brands(<<>>), Brands(<<"IST">>), Brands(<<"BLD", "IST">>), Brands(<<"UBLD", "IST">>)}

InitOffer ==
  /\ \E wallet \in {Null, Wallet(KeplrAddress)},
        contractInstance \in {Null, Undef, ContractInstance},
        brands \in OfferRegistries \cup {Null},
        currentWalletRecord \in WalletRecords \cup {Null},
        accountInvitation \in {Null, Invitation(Entry(<<"b">>, AccountDescription))} :
       state = [InitialState EXCEPT !.watcher = Watcher("mainnet"), !.network = "mainnet",
                                    !.isInitialized = TRUE, !.wallet = wallet,
                                    !.contractInstance = contractInstance, !.brands = brands,
                                    !.currentWalletRecord = currentWalletRecord,
                                    !.accountInvitation = accountInvitation,
                                    !.hasAccount = (accountInvitation # Null)]
  /\ subs = {Sub(Watcher("mainnet"), "instance"), Sub(Watcher("mainnet"), "brand")}
  /\ keplr = TRUE
  /\ initPc = "ready"
  /\ readyCount = 1
  /\ \E denom \in OfferDenoms :
       h = [i \in ReqIds |-> IF i = "r1"
                             THEN [InitLocal EXCEPT !.pc = "start", !.type = "makeOffer",
                                                    !.data = "object", !.denom = denom]
                             ELSE InitLocal]
  /\ replies = [i \in ReqIds |-> <<>>]

\* makeOffer({ messages, totalAmount, denom }) up to the promise it returns;
\* wallet.makeOffer takes the offer or throws.
MakeOffer ==
  /\ h["r1"].pc = "start"
  /\ h["r1"].type = "makeOffer"
  /\ \E inp \in {Input(TRUE, NewError(""), TRUE, TRUE, Null),
                 Input(TRUE, NewError("Request rejected"), TRUE, FALSE, Null)} :
       LET r == makeOfferEntry(World(state, subs), h["r1"], inp)
       IN /\ state' = r.w.state
          /\ subs' = r.w.subs
          /\ h' = [h EXCEPT !["r1"] =
                     [r.l EXCEPT !.pc = IF r.tag = "suspend" THEN "mo_offer" ELSE "done",
                                 !.outcome = IF r.tag = "throw" THEN "threw" ELSE "none",
                                 !.error = IF r.tag = "throw" THEN r.val ELSE Undef]]
  /\ UNCHANGED <<keplr, initPc, readyCount, replies>>

NextOffer == MakeOffer

SpecOffer == InitOffer /\ [][NextOffer]_vars

\* C15: when a wallet is connected, the contract instance is known, the brand
\* registry is populated and the brand is found, makeOffer chooses a route
\* without raising: Continue if and only if the current wallet record has an
\* account kit invitation, Create with a record without one and with no
\* record yet, whatever accountInvitation and hasAccount cache.
C15_RoutingNeverErrors ==
  (h["r1"].type = "makeOffer" /\ h["r1"].pc # "start"
     /\ state.wallet # Null /\ state.contractInstance \notin {Null, Undef} /\ state.brands # Null
     /\ \E n \in 1..Len(state.brands.keys) : state.brands.keys[n] = brandKey(h["r1"].denom))
  => LET Found ==
           /\ state.currentWalletRecord # Null
           /\ \E n \in 1..Len(state.currentWalletRecord.offerToUsedInvitation) :
                state.currentWalletRecord.offerToUsedInvitation[n].description
                  = "qstnAccountKitInvitation"
     IN /\ h["r1"].invitationSpec # Null
        /\ h["r1"].invitationSpec.source = IF Found THEN "continuing" ELSE "contract"
        /\ h["r1"].accountWasCreated = ~Found
        /\ h["r1"].outcome = "threw" => h["r1"].error = NewError("Request rejected")

C19_PreconditionsInOrder ==
  [][(h["r1"].type = "makeOffer" /\ h["r1"].pc = "start" /\ h'["r1"].pc # "start")
     => LET Fails(message) ==
              /\ h'["r1"].outcome = "threw"
              /\ h'["r1"].error = NewError(message)
              /\ ~h'["r1"].submitted
              /\ h'["r1"].invitationSpec = Null
              /\ state' = state
              /\ subs' = subs
            keys == state.brands.keys
            Listed == IF Len(keys) = 0 THEN ""
                      ELSE IF Len(keys) = 1 THEN keys[1]
                      ELSE keys[1] \o ", " \o keys[2]
        IN IF state.wallet = Null
           THEN Fails("Wallet not connected. Call connectWallet() first.")
           ELSE IF state.contractInstance \in {Null, Undef}
           THEN Fails("Contract not found. Ensure contract instance or installation are loaded.")
           ELSE IF state.brands = Null
           THEN Fails("Brands not loaded. Wait for chain storage to sync.")
           ELSE IF \A n \in 1..Len(keys) : keys[n] # brandKey(h["r1"].denom)
           THEN Fails("Brand not found for " \o brandKey(h["r1"].denom)
                      \o ". Available brands: " \o Listed)
           ELSE h'["r1"].error # NewError("Wallet not connected. Call connectWallet() first.")
    ]_vars

\* makeOffer failed for a missing contract instance while the brand registry
\* was missing too.
C19_Witness ==
  /\ h["r1"].type = "makeOffer"
  /\ h["r1"].pc = "done"
  /\ state.wallet # Null
  /\ state.contractInstance = Undef
  /\ state.brands = Null
  /\ h["r1"].error = NewError("Contract not found. Ensure contract instance or installation are loaded.")

\* C20: the brand key makeOffer looks up is BLD for the denom ubld in any
\* letter case and the upper-cased denom for any other: with the
\* preconditions met, the submission fails for a missing brand, naming that
\* key, exactly when the registry does not have that key.
C20_BrandKey ==
  (h["r1"].type = "makeOffer" /\ h["r1"].pc # "start"
     /\ state.wallet # Null /\ state.contractInstance \notin {Null, Undef} /\ state.brands # Null)
  => LET denom == h["r1"].denom
         keys == state.brands.keys
         Expected ==
           CASE denom \in {<<"u", "b", "l", "d">>, <<"U", "B", "L", "D">>,
                           <<"U", "b", "l", "d">>, <<"u", "B", "l", "D">>} -> "BLD"
             [] denom \in {<<"i", "s", "t">>, <<"I", "S", "T">>} -> "IST"
             [] denom \in {<<"b", "l", "d">>, <<"B", "L", "D">>} -> "BLD"
             [] denom = <<"u", "i", "s", "t">> -> "UIST"
         Listed == IF Len(keys) = 0 THEN ""
                   ELSE IF Len(keys) = 1 THEN keys[1]
                   ELSE keys[1] \o ", " \o keys[2]
     IN IF \E n \in 1..Len(keys) : keys[n] = Expected
        THEN h["r1"].outcome = "threw" => h["r1"].error \in {NullReadError, NewError("Request rejected")}
        ELSE /\ h["r1"].outcome = "threw"
             /\ h["r1"].error = NewError("Brand not found for " \o Expected
                                         \o ". Available brands: " \o Listed)

\* An offer with the denom "Ubld" was submitted with a registry whose keys are
\* BLD and IST.
C20_Witness ==
  /\ h["r1"].type = "makeOffer"
  /\ h["r1"].denom = <<"U", "b", "l", "d">>
  /\ state.brands = Brands(<<"BLD", "IST">>)
  /\ h["r1"].submitted

(***************************************************************************)
(* Offer Orchestrator: the status callback of one submitted offer          *)
(***************************************************************************)
\* What the wallet and the chain deliver to a submitted offer.
Delivery ==
  [ids |-> {"r1"}, types |-> {"FUND_SURVEY", "CLAIM_REWARDS"}, networks |-> {UndefStr},
   absent |-> {}, denoms |-> PayloadDenoms, failures |-> ExternalFailures,
   updates |-> OfferUpdates, instances |-> {ContractInstance},
   brands |-> {Brands(<<"BLD", "IST">>)}, records |-> WalletRecords \cup {Null},
   recycle |-> FALSE]

\* The sessions in which makeOffer has just submitted an offer: a wallet is
\* connected, the instance and the brands are known, and the wallet record
\* has or has not an account kit invitation, cached or not.
InitPromise ==
  /\ \E type \in Delivery.types, denom \in Delivery.denoms,
        currentWalletRecord \in WalletRecords,
        accountInvitation \in {Null, Invitation(Entry(<<"9">>, AccountDescription))} :
       LET s == [InitialState EXCEPT !.watcher = Watcher("devnet"), !.network = "devnet",
                                     !.isInitialized = TRUE,
                                     !.wallet = Wallet(KeplrAddress),
                                     !.contractInstance = ContractInstance,
                                     !.brands = Brands(<<"BLD", "IST">>),
                                     !.currentWalletRecord = currentWalletRecord,
                                     !.accountInvitation = accountInvitation,
                                     !.hasAccount = (accountInvitation # Null)]
           ss == {Sub(Watcher("devnet"), path) : path \in {"instance", "brand", "wallet"}}
           l == [InitLocal EXCEPT !.pc = "start", !.id = "r1", !.type = type,
                                  !.data = "object", !.denom = denom]
           r == makeOfferEntry(World(s, ss), l, NoInput)
       IN /\ r.tag = "suspend"
          /\ state = r.w.state
          /\ subs = r.w.subs
          /\ h = [i \in ReqIds |-> IF i = "r1" THEN r.l ELSE InitLocal]
  /\ keplr = TRUE
  /\ initPc = "ready"
  /\ readyCount = 1
  /\ replies = [i \in ReqIds |-> <<>>]

NextPromise ==
  \/ OfferStatusUpdate("r1", Delivery)
  \/ CallbackDelayElapses("r1")
  \/ FetchSettles("r1")
  \/ WatchWalletRecord(Delivery)

SpecPromise == InitPromise /\ [][NextPromise]_vars

\* C21: an accepted update delivered to a pending offer resolves it with
\* {status: accepted, data}, where data is the update's own payload if it
\* carries txn, else the remembered seated payload if it carries txn, else
\* what the REST lookup found, else whatever payload there is.
C21_DataPriority ==
  (h["r1"].submitted /\ h["r1"].settled = "pending" /\ ~h["r1"].accountWasCreated)
  => \A own \in AcceptedDatas : \A fetched \in {Null, ApiData} :
       LET seated == h["r1"].seatedData
           HasTxn(d) == TruthyObject(d) /\ d.txn # UndefStr
           Chosen == IF HasTxn(own) THEN own
                     ELSE IF HasTxn(seated) THEN seated
                     ELSE IF fetched # Null THEN fetched
                     ELSE IF TruthyObject(seated) THEN seated ELSE own
           r == statusCallback(World(state, subs), h["r1"], Update("accepted", own))
           end == IF r.tag = "fetch"
                  THEN statusCallbackResume(r.w, r.l, [pc |-> "cb_fetch", data |-> r.val], fetched)
                  ELSE r
       IN /\ end.tag = "resolve"
          /\ end.val = [k |-> "offerResult", status |-> "accepted", data |-> Chosen]

\* C22: when the REST lookup of an accepted offer ends while the offer is
\* pending, the offer is resolved and the request answered with a success
\* reply, whose txHash is "unknown" when the lookup found nothing; the
\* callback waiting for the lookup holds a payload without txn.
C22_LookupNeverFails ==
  /\ \A n \in 1..Len(h["r1"].callbacks) :
       h["r1"].callbacks[n].pc = "cb_fetch"
       => /\ h["r1"].settled = "pending"
          /\ ~TruthyObject(h["r1"].callbacks[n].data) \/ h["r1"].callbacks[n].data.txn = UndefStr
          /\ \A fetched \in {Null, ApiData} :
               LET l1 == [h["r1"] EXCEPT !.callbacks = Without(@, n)]
                   cb == h["r1"].callbacks[n]
                   ran == afterCallback(statusCallbackResume(World(state, subs), l1, cb, fetched),
                                        cb.data)
               IN /\ ran.w = World(state, subs)
                  /\ ran.l.settled = "resolved"
                  /\ Len(ran.out) = 1
                  /\ ran.out[1].success
                  /\ ran.out[1].data.txHash = IF fetched = Null THEN "unknown" ELSE "tx-api"
  /\ h["r1"].settled = "resolved"
     => /\ Len(replies["r1"]) = 1
        /\ replies["r1"][1].success
        /\ replies["r1"][1].data.txHash \in {"unknown", "tx-api", "tx-seated", "tx-accepted"}

\* An accepted offer whose payloads had no txn and whose lookup found nothing
\* was answered with success and the txHash "unknown".
C22_Witness ==
  /\ h["r1"].settled = "resolved"
  /\ Len(replies["r1"]) = 1
  /\ replies["r1"][1].success
  /\ replies["r1"][1].data.txHash = "unknown"

\* C23: a refunded update delivered to a pending offer rejects it with the
\* message "Offer was refunded (wants not satisfied)", whatever its payload
\* and the remembered seated payload, and leaves the Session State alone; the
\* request is answered with a failure reply of that message.
C23_RefundedRejects ==
  (h["r1"].submitted /\ h["r1"].settled = "pending")
  => \A d \in {Undef, Data("tx-refunded", "offer-3")} :
       LET r == statusCallback(World(state, subs), h["r1"], Update("refunded", d))
           ran == afterCallback(r, d)
       IN /\ r.tag = "reject"
          /\ r.val = NewError("Offer was refunded (wants not satisfied)")
          /\ ran.w = World(state, subs)
          /\ ran.l.settled = "rejected"
          /\ Len(ran.out) = 1
          /\ ~ran.out[1].success
          /\ ran.out[1].message = "Offer was refunded (wants not satisfied)"

\* An offer was rejected as refunded after an earlier update had been
\* delivered to it.
C23_Witness ==
  /\ h["r1"].settled = "rejected"
  /\ h["r1"].updates = 2
  /\ Len(replies["r1"]) = 1
  /\ replies["r1"][1].message = "Offer was refunded (wants not satisfied)"

\* C24: an offer whose accepted callback is suspended, in its settle delay or
\* in the REST lookup, while the offer is pending, is not rejected by what is
\* delivered to it afterwards.
C24_AcceptedIsTerminal ==
  [][(h["r1"].submitted /\ h["r1"].settled = "pending" /\ h["r1"].callbacks # <<>>)
     => h'["r1"].settled # "rejected"]_vars

(***************************************************************************)
(* Chain State Watcher Adapter: watchWallet called in one session          *)
(***************************************************************************)
\* The sessions watchWallet is called in: without a watcher, or with the
\* watcher of a network and its two subscriptions, with or without a wallet,
\* with what the instance and brand subscriptions have delivered so far.
InitWalletWatch ==
  /\ \E network \in DOMAIN networkConfigs \cup {NullStr},
        wallet \in {Null, Wallet(KeplrAddress)},
        contractInstance \in {Null, Undef, ContractInstance},
        brands \in BrandRegistries \cup {Null} :
       /\ network = NullStr => (wallet = Null /\ contractInstance = Null /\ brands = Null)
       /\ state = IF network = NullStr THEN InitialState
                  ELSE [InitialState EXCEPT !.watcher = Watcher(network), !.network = network,
                                            !.wallet = wallet,
                                            !.contractInstance = contractInstance,
                                            !.brands = brands]
       /\ subs = IF network = NullStr THEN {}
                 ELSE {Sub(Watcher(network), "instance"), Sub(Watcher(network), "brand")}
  /\ keplr = TRUE
  /\ initPc = "load"
  /\ readyCount = 0
  /\ h = [i \in ReqIds |-> IF i = "r1" THEN [InitLocal EXCEPT !.pc = "start", !.type = "watchWallet"]
                           ELSE InitLocal]
  /\ replies = [i \in ReqIds |-> <<>>]

\* watchWallet()
WatchWallet ==
  /\ h["r1"].pc = "start"
  /\ h["r1"].type = "watchWallet"
  /\ LET w == watchWallet(World(state, subs))
     IN /\ state' = w.state
        /\ subs' = w.subs
  /\ h' = [h EXCEPT !["r1"].pc = "done", !["r1"].outcome = "returned"]
  /\ UNCHANGED <<keplr, initPc, readyCount, replies>>

NextWalletWatch ==
  \/ WatchWallet
  \/ WatchWalletRecord(Delivery)

SpecWalletWatch == InitWalletWatch /\ [][NextWalletWatch]_vars

\* C25: a call of watchWallet registers the wallet-record subscription, on
\* the session's watcher, when the session has a watcher and a wallet, and
\* registers nothing otherwise; it changes no Session State field and raises
\* nothing.  What the subscription delivers replaces the stored wallet record
\* only by a record, never by an empty value, and there is no wallet-record
\* subscription in a session without a watcher or without a wallet.
C25_WalletWatchNeedsBoth ==
  [][/\ (h["r1"].type = "watchWallet" /\ h["r1"].pc = "start" /\ h'["r1"].pc = "done")
        => /\ state' = state
           /\ h'["r1"].outcome = "returned"
           /\ subs' = IF state.watcher = Null \/ state.wallet = Null THEN subs
                      ELSE subs \cup {[watcher |-> state.watcher, path |-> "wallet"]}
     /\ state'.currentWalletRecord # state.currentWalletRecord
        => state'.currentWalletRecord \notin {Null, Undef}
     /\ (\E sub \in subs' : sub.path = "wallet")
        => (state'.watcher # Null /\ state'.wallet # Null)
    ]_vars

\* watchWallet was called in a session with a watcher and no wallet, and
\* registered nothing.
C25_Witness ==
  /\ h["r1"].type = "watchWallet"
  /\ h["r1"].pc = "done"
  /\ state.watcher # Null
  /\ state.wallet = Null
  /\ \A sub \in subs : sub.path # "wallet"

(***************************************************************************)
(* Session State: properties                                                *)
(***************************************************************************)
\* C26: in every reachable state the network recorded in Session State is
\* the network the current watcher was created for, and no network is
\* recorded while there is no watcher.
C26_NetworkOfWatcher ==
  IF state.watcher = Null THEN state.network = InitialState.network
  ELSE state.watcher.network = state.network

\* C28: hasAccount is true exactly when an account invitation is cached.
\* The cache is written only by the end of a connect and by the accepted
\* callback of a Create-route offer after its settle delay, with an account
\* kit invitation of the current wallet record; once set it is never
\* cleared, whatever happens to the network and the wallet.
C28_AccountCache ==
  [][/\ state'.hasAccount = (state'.accountInvitation # Null)
     /\ state.accountInvitation # Null => state'.accountInvitation # Null
     /\ state'.accountInvitation # state.accountInvitation
        => /\ state'.currentWalletRecord # Null
           /\ \E n \in 1..Len(state'.currentWalletRecord.offerToUsedInvitation) :
                LET entry == state'.currentWalletRecord.offerToUsedInvitation[n]
                IN /\ entry.description = "qstnAccountKitInvitation"
                   /\ state'.accountInvitation = [k |-> "invitation", id |-> entry.id]
           /\ \E i \in ReqIds :
                \/ h[i].pc = "cw_settleWallet" /\ h'[i].pc # "cw_settleWallet"
                \/ /\ h[i].accountWasCreated
                   /\ \E n \in 1..Len(h[i].callbacks) : h[i].callbacks[n].pc = "cb_settle"
                   /\ Len(h'[i].callbacks) <= Len(h[i].callbacks)
    ]_vars

\* An invitation is cached while a connect to another network has just
\* replaced the watcher.
C28_Witness ==
  /\ state.hasAccount
  /\ state.accountInvitation # Null
  /\ state.network = "devnet"
  /\ h["r1"].pc = "cw_settleWatcher"
  /\ [watcher |-> [k |-> "watcher", network |-> "mainnet"], path |-> "wallet"] \in subs

(***************************************************************************)
(* Wallet Session: one request that connects                                *)
(***************************************************************************)
\* The requests that connect, explicitly or implicitly, and what the
\* collaborators answer them.
Connecting ==
  [ids |-> {"r1"}, types |-> {"CONNECT_WALLET", "SIGN_DATA", "FUND_SURVEY", "CLAIM_REWARDS"},
   networks |-> PayloadNetworks, absent |-> {}, denoms |-> PayloadDenoms,
   failures |-> {NewError("Request rejected")}, updates |-> {},
   instances |-> {ContractInstance}, brands |-> {Brands(<<"BLD", "IST">>)},
   records |-> WalletRecords \cup {Null}, recycle |-> FALSE]

\* The sessions a request is received in: after a failed initialization (no
\* watcher, no network), after initialization (mainnet) or after a connect
\* to devnet; without a wallet, or with a wallet and what its subscription
\* has delivered.  The parent has just asked for the status (request r2) and
\* been answered.
InitConnect ==
  /\ \E network \in {NullStr, "mainnet", "devnet"},
        wallet \in {Null, Wallet(KeplrAddress)},
        currentWalletRecord \in Connecting.records :
       /\ network = NullStr => wallet = Null
       /\ wallet = Null => currentWalletRecord = Null
       /\ state = IF network = NullStr THEN InitialState
                  ELSE [InitialState EXCEPT !.watcher = Watcher(network), !.network = network,
                                            !.isInitialized = TRUE, !.wallet = wallet,
                                            !.contractInstance = ContractInstance,
                                            !.brands = Brands(<<"BLD", "IST">>),
                                            !.currentWalletRecord = currentWalletRecord]
       /\ subs = IF network = NullStr THEN {}
                 ELSE {Sub(Watcher(network), "instance"), Sub(Watcher(network), "brand")}
                      \cup IF wallet = Null THEN {} ELSE {Sub(Watcher(network), "wallet")}
       /\ initPc = IF network = NullStr THEN "failed" ELSE "ready"
       /\ readyCount = IF network = NullStr THEN 0 ELSE 1
  /\ keplr \in BOOLEAN
  /\ \E type \in Connecting.types : \E p \in PayloadsOf(type, Connecting) :
       LET status == listener(World(state, subs),
                              [InitLocal EXCEPT !.pc = "start", !.id = "r2",
                                                !.type = "GET_STATUS"], NoInput)
       IN /\ h = [i \in ReqIds |->
                   IF i = "r1"
                   THEN [InitLocal EXCEPT !.pc = "start", !.id = "r1", !.type = type,
                                          !.data = p.data, !.network = p.network,
                                          !.denom = p.denom]
                   ELSE status.l]
          /\ replies = [i \in ReqIds |-> IF i = "r2" THEN status.out ELSE <<>>]

\* The message event of the request: the listener runs to its first await or
\* to its end.
ReceiveRequest ==
  /\ h["r1"].pc = "start"
  /\ \E inp \in SyncInputs(h["r1"], Connecting) :
       Apply("r1", listener(World(state, subs), h["r1"], inp), FALSE)

NextConnect ==
  \/ ReceiveRequest
  \/ SettleDelayElapses("r1", Connecting)
  \/ SuggestChainSettles("r1", Connecting)
  \/ WalletConnectionSettles("r1", Connecting)
  \/ SignAminoSettles("r1", Connecting)
  \/ WatchWalletRecord(Connecting)

SpecConnect == InitConnect /\ [][NextConnect]_vars

\* C27: once a CONNECT_WALLET request is answered with a failure reply, the
\* connected and address values of the GET_STATUS snapshot are those reported
\* before the request was received.
C27_FailedConnectKeepsWallet ==
  (/\ h["r1"].type = "CONNECT_WALLET"
   /\ h["r1"].pc = "done"
   /\ Len(replies["r1"]) = 1
   /\ ~replies["r1"][1].success)
  => LET before == replies["r2"][1].data
         after == listener(World(state, subs),
                           [InitLocal EXCEPT !.pc = "start", !.id = "r2",
                                             !.type = "GET_STATUS"], NoInput).out[1].data
     IN /\ after.connected = before.connected
        /\ after.address = before.address

\* C29: with no wallet handle, the first step of FUND_SURVEY and of
\* CLAIM_REWARDS connects to devnet: in a session of another network, or of
\* none, it replaces the watcher by one for devnet and records devnet.  The
\* first step of SIGN_DATA (with the extension present) connects to the
\* session's network and keeps the watcher and the network; in a session
\* without a network it connects to devnet.
C29_ImplicitConnectTarget ==
  [][(h["r1"].pc = "start" /\ h'["r1"].pc # "start" /\ h["r1"].data = "object"
      /\ state.wallet = Null /\ h'["r1"].pc \in ConnectPcs)
     => /\ h["r1"].type \in {"FUND_SURVEY", "CLAIM_REWARDS"}
           => /\ h'["r1"].targetNetwork = "devnet"
              /\ state'.network = "devnet"
              /\ state'.watcher = [k |-> "watcher", network |-> "devnet"]
              /\ (state.network # "devnet") = (h'["r1"].pc = "cw_settleWatcher")
        /\ h["r1"].type = "SIGN_DATA"
           => IF state.network = NullStr
              THEN h'["r1"].targetNetwork = "devnet" /\ state'.network = "devnet"
              ELSE /\ h'["r1"].targetNetwork = state.network
                   /\ state'.network = state.network
                   /\ state'.watcher = state.watcher
                   /\ h'["r1"].pc = "cw_suggestChain"
    ]_vars

\* A FUND_SURVEY or CLAIM_REWARDS request of a mainnet session without a
\* wallet waits for its new devnet watcher to settle.
C29_Witness ==
  /\ h["r1"].type \in {"FUND_SURVEY", "CLAIM_REWARDS"}
  /\ h["r1"].pc = "cw_settleWatcher"
  /\ initPc = "ready"
  /\ state.network = "devnet"
  /\ [watcher |-> [k |-> "watcher", network |-> "mainnet"], path |-> "brand"] \in subs

====
